---------------------------- MODULE Spec2Model ----------------------------
(***************************************************************************)
(* Model of the WhatsApp REST service of utils/baileys.js: the webhook     *)
(* dispatcher (makeWebhookDispatcher), the backoff function (backoffMs),   *)
(* the connection lifecycle manager (connect / stop / start) and the send  *)
(* operations of the service facade (createWhatsAppService).               *)
(*                                                                         *)
(* Node.js runs one callback at a time: every action below is one run of   *)
(* a callback from where it is entered (or resumed after an await on real  *)
(* I/O or a timer) to where it next suspends or returns.                   *)
(***************************************************************************)
EXTENDS Integers, Sequences, FiniteSets

\* ------------------------------------------------------------------ bounds
\* Enqueue calls made by the producer of SpecWebhook.
MaxEnqueue == 3
\* Retries of one backoff series of SpecBackoff.
MaxAttempt == 5
\* The retry ceiling the service is configured with (WEBHOOK_MAX_RETRIES in
\* the environment; the code's default is 8).
WEBHOOK_MAX_RETRIES == 2

\* Math.floor(Math.random() * 200): the jitter values the code can draw.
JitterRange == 0 .. 199
\* EVENT_RETENTION
EVENT_RETENTION == 2000

\* Configurations of the backoff: WEBHOOK_RETRY_BASE_MS / RECONNECT_BASE_MS
\* and WEBHOOK_RETRY_MAX_MS / RECONNECT_MAX_MS as set in the environment
\* (1000, 1500 and 30000 are the code's defaults).
BaseSet == {1, 100, 1000, 1500}
CapSet == {150, 30000}

\* Sessions a run creates (connect() calls).
MaxSessions == 3
\* Events a run of the service produces (pushEvent calls).
MaxEvents == 3
\* Send calls a run of SpecSend lets through to socket.sendMessage.
MaxSends == 1
\* The clock reads 0 .. MaxTime.
MaxTime == 1
\* Lines of events.log that appendEvent did not write.
MaxForeign == 1
\* Entries of a pollOptions array.
MaxPollOptions == 3
\* Messages, updates or receipts the protocol layer hands over in one event.
MaxBatch == 2

\* null for a reference (a session, a timer, a QR code); references are 1, 2, ...
NULL == 0
\* null for a string-valued field
NONE == "null"

VARIABLES
  \* makeWebhookDispatcher
  WEBHOOK_URL,    \* "" (not configured) or the destination
  queue,          \* references to the queued items, head first
  running,        \* the running flag of run()
  workers,        \* the suspended instances of run(): [pc, item]
  \* what the dispatcher's callers and destination have seen
  enqCount,       \* enqueue() calls so far; the k-th call carries payload k
  items,          \* per item: [attempt, calls, out]
  delivered,      \* payloads the destination acknowledged, in order
  \* one series of retry delays (backoffMs)
  boBase, boCap, boAttempt, boJitter, boDelay,
  \* createWhatsAppService
  socket,               \* the session handle, or NULL
  connected,
  currentQr,            \* the login code (named by its session), or NULL
  currentQrDataUrl,     \* its rendered image, or NULL
  qrUpdatedAt,          \* NONE or a timestamp
  reconnectAttempts,
  reconnectTimer,       \* the handle setTimeout returned, or NULL
  lastDisconnectReason, \* NONE, a status code or "unknown"
  me,                   \* the identity captured (named by its session), or NULL
  eventBuffer,          \* the events pushed, in order
  journal,              \* events.log: [exists, rows], rows being its lines
  \* the protocol layer, the timers and the callers
  sess,                 \* per connect() call: [st, force, by, code, loaded];
                        \* by is the timer whose callback made the call, NULL
                        \* for start(); loaded is the credential store that
                        \* useMultiFileAuthState found
  timers,               \* the pending reconnect timers, named by the session
                        \* whose close scheduled them
  stoppedTimers,        \* the timers that were pending when stop() was called
  qrPending,            \* login-code handlers suspended in qrcode.toDataURL
  started,              \* start() was called at boot
  initialized,          \* a start() call has returned
  stopped,              \* the last call of start() or stop() was stop()
  sends,                \* socket.sendMessage calls in progress
  resp,                 \* the outcome of the last send call; tick flips with
                        \* every call
  \* the clock, the disk and the GET /events route
  clock,                \* what new Date() gives, in milliseconds
  authDir,              \* the files of the credential store
  found                 \* the last GET /events request: its query, the
                        \* status answered, whether events.log was read and
                        \* the events answered

whVars == <<WEBHOOK_URL, queue, running, workers, enqCount, items, delivered>>
boVars == <<boBase, boCap, boAttempt, boJitter, boDelay>>
lcVars ==
  <<socket, connected, currentQr, currentQrDataUrl, qrUpdatedAt,
    reconnectAttempts, reconnectTimer, lastDisconnectReason, me>>
logVars == <<eventBuffer, journal>>
envVars == <<sess, timers, stoppedTimers, qrPending, started, initialized, stopped>>
sendVars == <<sends, resp>>
ioVars == <<clock, authDir, found>>
svcVars == <<lcVars, logVars, envVars, sendVars, ioVars>>
vars == <<whVars, boVars, svcVars>>

\* ------------------------------------------------------------ pure helpers
Min(a, b) == IF a <= b THEN a ELSE b
Max(a, b) == IF a >= b THEN a ELSE b

RECURSIVE Pow2(_)
Pow2(n) == IF n <= 0 THEN 1 ELSE 2 * Pow2(n - 1)

RemoveAt(s, i) == [k \in 1 .. Len(s) - 1 |-> IF k < i THEN s[k] ELSE s[k + 1]]

\* backoffMs(attempt, baseMs, maxMs), with the value Math.random() gave.
backoffMs(attempt, baseMs, maxMs, jitter) ==
  LET raw == baseMs * Pow2(Max(0, attempt - 1))
  IN  Min(maxMs, raw + jitter)

\* ------------------------------------------------------- webhook dispatcher
\* The queue holds references to item objects; the k-th enqueue() call makes
\* the object k. items[k].attempt is the object's attempt field; calls (the
\* postJson calls made for it) and out (how it left the queue) are what the
\* destination and the log have seen of it.
InitWebhook ==
  /\ WEBHOOK_URL \in {"", "http://hook"}
  /\ queue = <<>>
  /\ running = FALSE
  /\ workers = <<>>
  /\ enqCount = 0
  /\ items = <<>>
  /\ delivered = <<>>

\* Mutant of QueuePush: the item is put at the head (unshift).
QueuePushFront(q, item) == <<item>> \o q

\* queue.push(item)
QueuePush(q, item) == Append(q, item)

\* Mutant of AlreadyRunning: run() without the running-flag check.
NeverRunning(flag) == FALSE

\* if (running) return;
AlreadyRunning(flag) == flag

\* Mutant of RunningAfterLoop: the flag is left set when the loop ends.
RunningStaysSet == TRUE

\* running = false, after the while loop
RunningAfterLoop == FALSE

\* Mutant of ExceedsRetries: the ceiling is compared with >=.
ExceedsRetriesOffByOne(attempt) == attempt >= WEBHOOK_MAX_RETRIES

\* item.attempt > WEBHOOK_MAX_RETRIES
ExceedsRetries(attempt) == attempt > WEBHOOK_MAX_RETRIES

\* The dispatcher's state as one value, for the code that runs inside a
\* caller's callback (pushEvent -> enqueue -> run).
Dispatcher ==
  [queue |-> queue, running |-> running, workers |-> workers,
   items |-> items, enqCount |-> enqCount]

SetDispatcher(d) ==
  /\ queue' = d.queue
  /\ running' = d.running
  /\ workers' = d.workers
  /\ items' = d.items
  /\ enqCount' = d.enqCount

\* const item = queue[0]; postJson(item.url, item.payload) is called.
CallPost(its, q) == [its EXCEPT ![q[1]].calls = @ + 1]

\* The while test of run() for the instance w: the next head is posted, or
\* the loop ends, running is cleared and the instance is gone.
LoopTest(d, w) ==
  IF Len(d.queue) > 0
  THEN [d EXCEPT !.workers[w] = [pc |-> "post", item |-> d.queue[1]],
                 !.items = CallPost(@, d.queue)]
  ELSE [d EXCEPT !.workers = RemoveAt(@, w),
                 !.running = RunningAfterLoop]

\* void run(): from its entry to its first await (or its return).
Run(d) ==
  IF AlreadyRunning(d.running)
  THEN d
  ELSE IF Len(d.queue) > 0
       THEN [d EXCEPT !.running = TRUE,
                      !.workers = Append(@, [pc |-> "post", item |-> d.queue[1]]),
                      !.items = CallPost(@, d.queue)]
       ELSE [d EXCEPT !.running = RunningAfterLoop]

\* enqueue(payload): the k-th call makes the item k.
enqueue(d) ==
  LET p == d.enqCount + 1 IN
  IF WEBHOOK_URL = ""
  THEN [d EXCEPT !.enqCount = p,
                 !.items = Append(@, [attempt |-> 0, calls |-> 0, out |-> "none"])]
  ELSE Run([d EXCEPT !.enqCount = p,
                     !.items = Append(@, [attempt |-> 0, calls |-> 0, out |-> "queued"]),
                     !.queue = QueuePush(@, p)])

\* The producer of SpecWebhook: one enqueue() call.
Enqueue ==
  /\ enqCount < MaxEnqueue
  /\ SetDispatcher(enqueue(Dispatcher))
  /\ UNCHANGED <<WEBHOOK_URL, delivered, boVars, svcVars>>

\* queue.shift(), recording how the removed head left.
Shift(d, how) ==
  [d EXCEPT !.items[d.queue[1]].out = how, !.queue = Tail(@)]

\* await postJson(...) resolves for the instance w: queue.shift(), loop.
PostSucceed(w) ==
  /\ w \in 1 .. Len(workers)
  /\ workers[w].pc = "post"
  /\ Len(queue) > 0
  /\ delivered' = Append(delivered, workers[w].item)
  /\ SetDispatcher(LoopTest(Shift(Dispatcher, "delivered"), w))
  /\ UNCHANGED <<WEBHOOK_URL, boVars, svcVars>>

\* await postJson(...) rejects for the instance w (timeout, exception or a
\* non-2xx status): the catch block.
PostFail(w) ==
  /\ w \in 1 .. Len(workers)
  /\ workers[w].pc = "post"
  /\ Len(queue) > 0
  /\ LET item == workers[w].item
         d1 == [Dispatcher EXCEPT !.items[item].attempt = @ + 1]
     IN  IF ExceedsRetries(d1.items[item].attempt)
         THEN SetDispatcher(LoopTest(Shift(d1, "dropped"), w))
         ELSE SetDispatcher([d1 EXCEPT !.workers[w].pc = "sleep"])
  /\ UNCHANGED <<WEBHOOK_URL, delivered, boVars, svcVars>>

\* await sleep(delay) resolves for the instance w: back to the while test.
SleepDone(w) ==
  /\ w \in 1 .. Len(workers)
  /\ workers[w].pc = "sleep"
  /\ SetDispatcher(LoopTest(Dispatcher, w))
  /\ UNCHANGED <<WEBHOOK_URL, delivered, boVars, svcVars>>

PostDone == \E w \in 1 .. Len(workers) : PostSucceed(w) \/ PostFail(w)
Wake == \E w \in 1 .. Len(workers) : SleepDone(w)

\* ------------------------------------------------------------- backoff
InitBackoffIdle ==
  /\ boBase = 1000
  /\ boCap = 30000
  /\ boAttempt = 0
  /\ boJitter = 0
  /\ boDelay = 0

InitBackoff ==
  /\ boBase \in BaseSet
  /\ boCap \in CapSet
  /\ boAttempt = 0
  /\ boJitter = 0
  /\ boDelay = 0

\* The delay of the next retry of one item: item.attempt += 1 (or
\* reconnectAttempts += 1), then backoffMs(attempt, base, max).
RetryDelay ==
  /\ boAttempt < MaxAttempt
  /\ boAttempt' = boAttempt + 1
  /\ \E j \in JitterRange :
       /\ boJitter' = j
       /\ boDelay' = backoffMs(boAttempt', boBase, boCap, j)
  /\ UNCHANGED <<boBase, boCap, whVars, svcVars>>

\* ------------------------------------------------- service: construction
\* DisconnectReason.loggedOut and a reconnectable reason (connectionClosed),
\* as status codes; "undefined" is a close with no lastDisconnect error.
LoggedOut == "401"
CloseCodes == {"401", "428", "undefined"}

\* createWhatsAppService({ dataDir, log }): the state it leaves.
InitService ==
  /\ socket = NULL
  /\ connected = FALSE
  /\ currentQr = NULL
  /\ currentQrDataUrl = NULL
  /\ qrUpdatedAt = NONE
  /\ reconnectAttempts = 0
  /\ reconnectTimer = NULL
  /\ lastDisconnectReason = NONE
  /\ me = NULL
  /\ eventBuffer = <<>>
  /\ journal = [exists |-> FALSE, rows |-> <<>>]
  /\ sess = <<>>
  /\ timers = {}
  /\ stoppedTimers = {}
  /\ qrPending = <<>>
  /\ started = FALSE
  /\ initialized = FALSE
  /\ stopped = FALSE
  /\ sends = <<>>
  /\ resp = [op |-> "none", status |-> "none", tick |-> 0]
  /\ clock = 0
  /\ authDir = {}
  /\ found = [query |-> <<>>, status |-> "none", read |-> FALSE, events |-> <<>>]

\* ------------------------------------------------------ service: pushEvent
\* The log a callback writes to: the in-memory buffer, the journal file and
\* the dispatcher.
Log == [buf |-> eventBuffer, file |-> journal, d |-> Dispatcher]

SetLog(l) ==
  /\ eventBuffer' = l.buf
  /\ journal' = l.file
  /\ SetDispatcher(l.d)

\* eventBuffer.push(event); if (eventBuffer.length > EVENT_RETENTION) shift()
Retained(buf) == IF Len(buf) > EVENT_RETENTION THEN Tail(buf) ELSE buf

\* A Date: an instant in milliseconds, or an invalid date (getTime() is NaN).
DateAt(ms) == [nan |-> FALSE, ms |-> ms]
InvalidDate == [nan |-> TRUE, ms |-> 0]

\* Date.prototype.toISOString: the date-time string of an instant.
toISOString(date) == [t |-> "date-string", ms |-> date.ms]

\* new Date(x), for a date-time string, another string, a number and undefined
NewDate(x) ==
  CASE x.t = "date-string" -> DateAt(x.ms)
    [] x.t = "number" -> DateAt(x.v)
    [] x.t = "string" -> InvalidDate
    [] x.t = "undefined" -> InvalidDate

\* now()
now == toISOString(DateAt(clock))

\* `${JSON.stringify(event)}\n`: one line of the journal
JsonLine(event) == [json |-> TRUE, null |-> FALSE, value |-> event]

\* appendEvent(dataDir, event, log): appendFileSync succeeds (ok), creating
\* the file if it is missing, or throws, which is logged and swallowed.
appendEvent(file, event, ok) ==
  IF ok THEN [exists |-> TRUE, rows |-> Append(file.rows, JsonLine(event))]
  ELSE file

\* Mutant of pushEvent: a failed append ends pushEvent before the enqueue.
pushEventAborted(l, eventType, src, payload, ok) ==
  LET event == [n |-> l.d.enqCount + 1, timestamp |-> now, eventType |-> eventType,
                src |-> src, payload |-> payload]
  IN  [buf |-> Retained(Append(l.buf, event)),
       file |-> appendEvent(l.file, event, ok),
       d |-> IF ok THEN enqueue(l.d) ELSE l.d]

\* pushEvent(eventType, payload). The event is numbered by its creation.
pushEvent(l, eventType, src, payload, ok) ==
  LET event == [n |-> l.d.enqCount + 1, timestamp |-> now, eventType |-> eventType,
                src |-> src, payload |-> payload]
  IN  [buf |-> Retained(Append(l.buf, event)),
       file |-> appendEvent(l.file, event, ok),
       d |-> enqueue(l.d)]

CanPush(k) == enqCount + Len(qrPending) + Len(sends) + k <= MaxEvents

\* ------------------------------------------------------- service: connect
\* if (reconnectTimer) { clearTimeout(reconnectTimer); reconnectTimer = null; }
ClearTimer(tm, rt) == IF rt # NULL THEN tm \ {rt} ELSE tm

\* resetAuthState(dataDir, log): every entry of the auth directory is removed
\* (synchronously, the function awaits nothing).
resetAuthState(dir) == {}

\* saveCreds(), as useMultiFileAuthState returns it: creds.json is written.
saveCreds(dir) == dir \cup {"creds.json"}

\* connect(forceNewLogin), from its entry to its await of
\* useMultiFileAuthState: the pending timers tm and the sessions ss are those
\* the caller leaves.
ConnectBegin(force, by, ss, tm) ==
  /\ Len(ss) < MaxSessions
  /\ timers' = ClearTimer(tm, reconnectTimer)
  /\ reconnectTimer' = NULL
  /\ authDir' = IF force THEN resetAuthState(authDir) ELSE authDir
  /\ sess' = Append(ss, [st |-> "load", force |-> force, by |-> by, code |-> "none",
                         loaded |-> {}])

\* start(options) at boot.
Start(force) ==
  /\ ~started
  /\ started' = TRUE
  /\ stopped' = FALSE
  /\ ConnectBegin(force, NULL, sess, timers)
  /\ UNCHANGED <<socket, connected, currentQr, currentQrDataUrl, qrUpdatedAt,
                 reconnectAttempts, lastDisconnectReason, me>>
  /\ UNCHANGED <<logVars, stoppedTimers, qrPending, initialized, sendVars>>
  /\ UNCHANGED <<whVars, boVars>>
  /\ UNCHANGED <<clock, found>>

\* useMultiFileAuthState(authDir) resolves in the connect() call c.
ConnectLoaded(c) ==
  /\ c \in 1 .. Len(sess)
  /\ sess[c].st = "load"
  /\ sess' = [sess EXCEPT ![c].st = "version", ![c].loaded = authDir]
  /\ UNCHANGED <<lcVars, logVars, timers, stoppedTimers, qrPending,
                 started, initialized, stopped, sendVars>>
  /\ UNCHANGED <<whVars, boVars>>
  /\ UNCHANGED ioVars

\* fetchLatestBaileysVersion() resolves or rejects in the connect() call c:
\* socket = makeWASocket(socketConfig), the handlers are subscribed and
\* connect returns (to start(), which then returns, or to the timer callback).
ConnectSocket(c) ==
  /\ c \in 1 .. Len(sess)
  /\ sess[c].st = "version"
  /\ sess' = [sess EXCEPT ![c].st = "new"]
  /\ socket' = c
  /\ initialized' = (initialized \/ sess[c].by = NULL)
  /\ UNCHANGED <<connected, currentQr, currentQrDataUrl, qrUpdatedAt,
                 reconnectAttempts, reconnectTimer, lastDisconnectReason, me>>
  /\ UNCHANGED <<logVars, timers, stoppedTimers, qrPending, started, stopped, sendVars>>
  /\ UNCHANGED <<whVars, boVars>>
  /\ UNCHANGED ioVars

\* --------------------------------------- service: connection.update handler
\* The session s emits a login code: the handler up to its await of
\* qrcode.toDataURL(qr).
SessionQr(s) ==
  /\ s \in 1 .. Len(sess)
  /\ sess[s].st = "new"
  /\ CanPush(1)
  /\ currentQr' = s
  /\ qrUpdatedAt' = "ts"
  /\ qrPending' = Append(qrPending, s)
  /\ UNCHANGED <<socket, connected, currentQrDataUrl, reconnectAttempts,
                 reconnectTimer, lastDisconnectReason, me>>
  /\ UNCHANGED <<logVars, sess, timers, stoppedTimers, started,
                 initialized, stopped, sendVars>>
  /\ UNCHANGED <<whVars, boVars>>
  /\ UNCHANGED ioVars

\* qrcode.toDataURL(qr) resolves (rendered) or rejects (.catch(() => null))
\* for the i-th suspended handler: the rest of the qr branch.
QrRendered(i, rendered, ok) ==
  /\ i \in 1 .. Len(qrPending)
  /\ currentQrDataUrl' = IF rendered THEN qrPending[i] ELSE NULL
  /\ qrPending' = RemoveAt(qrPending, i)
  /\ SetLog(pushEvent(Log, "auth.qr.updated", qrPending[i], <<qrUpdatedAt>>, ok))
  /\ UNCHANGED <<socket, connected, currentQr, qrUpdatedAt, reconnectAttempts,
                 reconnectTimer, lastDisconnectReason, me>>
  /\ UNCHANGED <<sess, timers, stoppedTimers, started, initialized, stopped, sendVars>>
  /\ UNCHANGED <<WEBHOOK_URL, delivered, boVars>>
  /\ UNCHANGED ioVars

\* Mutant of AttemptsAfterOpen: the open branch leaves the counter alone.
AttemptsAfterOpenKept == reconnectAttempts

\* reconnectAttempts = 0, in the open branch
AttemptsAfterOpen == 0

\* The session s emits connection === 'open'.
SessionOpen(s, ok) ==
  /\ s \in 1 .. Len(sess)
  /\ sess[s].st = "new"
  /\ CanPush(1)
  /\ sess' = [sess EXCEPT ![s].st = "open"]
  /\ connected' = TRUE
  /\ reconnectAttempts' = AttemptsAfterOpen
  /\ lastDisconnectReason' = NONE
  /\ currentQr' = NULL
  /\ currentQrDataUrl' = NULL
  /\ qrUpdatedAt' = NONE
  /\ me' = socket
  /\ SetLog(pushEvent(Log, "connection.open", s, <<socket>>, ok))
  /\ UNCHANGED <<socket, reconnectTimer>>
  /\ UNCHANGED <<timers, stoppedTimers, qrPending, started, initialized, stopped, sendVars>>
  /\ UNCHANGED <<WEBHOOK_URL, delivered, boVars>>
  /\ UNCHANGED ioVars

\* Mutant of ShouldReconnect: every close is taken as reconnectable.
AlwaysReconnect(statusCode) == TRUE

\* const shouldReconnect = statusCode !== DisconnectReason.loggedOut;
ShouldReconnect(statusCode) == statusCode # LoggedOut

\* lastDisconnectReason = statusCode || 'unknown';
ReasonOf(statusCode) == IF statusCode = "undefined" THEN "unknown" ELSE statusCode

\* The session s emits connection === 'close' with the status code given.
SessionClose(s, statusCode, ok) ==
  /\ s \in 1 .. Len(sess)
  /\ sess[s].st \in {"new", "open", "closing"}
  /\ CanPush(1)
  /\ sess' = [sess EXCEPT ![s].st = "closed", ![s].code = statusCode]
  /\ connected' = FALSE
  /\ lastDisconnectReason' = ReasonOf(statusCode)
  /\ SetLog(pushEvent(Log, "connection.close", s,
                      <<statusCode, ShouldReconnect(statusCode)>>, ok))
  /\ IF ShouldReconnect(statusCode)
     THEN /\ reconnectAttempts' = reconnectAttempts + 1
          /\ timers' = timers \cup {s}
          /\ reconnectTimer' = s
     ELSE UNCHANGED <<reconnectAttempts, timers, reconnectTimer>>
  /\ UNCHANGED <<socket, currentQr, currentQrDataUrl, qrUpdatedAt, me>>
  /\ UNCHANGED <<stoppedTimers, qrPending, started, initialized, stopped, sendVars>>
  /\ UNCHANGED <<WEBHOOK_URL, delivered, boVars>>
  /\ UNCHANGED ioVars

\* The credential update of the session s reaches the store: the handler of
\* creds.update awaits saveCreds(), whose write is asynchronous. stop() neither
\* unsubscribes the handlers of the session it closes nor waits for a write in
\* flight, so the write can land until the session has emitted its close.
CredsUpdate(s) ==
  /\ s \in 1 .. Len(sess)
  /\ sess[s].st \in {"new", "open", "closing"}
  /\ authDir' = saveCreds(authDir)
  /\ UNCHANGED <<clock, found>>
  /\ UNCHANGED <<lcVars, logVars, envVars, sendVars, whVars, boVars>>

\* The reconnect timer scheduled by the close of the session t fires:
\* connect(false) up to its first await.
TimerFire(t) ==
  /\ t \in timers
  /\ ConnectBegin(FALSE, t, sess, timers \ {t})
  /\ UNCHANGED <<socket, connected, currentQr, currentQrDataUrl, qrUpdatedAt,
                 reconnectAttempts, lastDisconnectReason, me>>
  /\ UNCHANGED <<logVars, stoppedTimers, qrPending, started, initialized, stopped, sendVars>>
  /\ UNCHANGED <<whVars, boVars>>
  /\ UNCHANGED <<clock, found>>

\* ------------------------------------------------ service: message handlers
MessageKinds == {"messages.upsert", "messages.update", "message-receipt.update"}

RECURSIVE PushAll(_, _, _, _)
PushAll(l, kind, s, oks) ==
  IF oks = <<>> THEN l
  ELSE PushAll(pushEvent(l, kind, s, <<>>, Head(oks)), kind, s, Tail(oks))

\* The session s emits messages.upsert, messages.update or
\* message-receipt.update with Len(oks) entries: one pushEvent for each.
MessageEvent(s, kind, oks) ==
  /\ s \in 1 .. Len(sess)
  /\ sess[s].st = "open"
  /\ CanPush(Len(oks))
  /\ SetLog(PushAll(Log, kind, s, oks))
  /\ UNCHANGED <<lcVars, envVars, sendVars>>
  /\ UNCHANGED <<WEBHOOK_URL, delivered, boVars>>
  /\ UNCHANGED ioVars

\* ---------------------------------------------------------- service: stop
\* if (socket?.ws) socket.ws.close();
WsClosed(ss) ==
  IF socket # NULL /\ ss[socket].st \in {"new", "open"}
  THEN [ss EXCEPT ![socket].st = "closing"]
  ELSE ss

\* Mutant of StoppedHandle: stop() keeps the session handle.
StoppedHandleKept == socket

\* socket = null, in stop()
StoppedHandle == NULL

\* stop()
Stop ==
  /\ started
  /\ stoppedTimers' = stoppedTimers \cup timers
  /\ timers' = ClearTimer(timers, reconnectTimer)
  /\ reconnectTimer' = NULL
  /\ sess' = WsClosed(sess)
  /\ socket' = StoppedHandle
  /\ connected' = FALSE
  /\ UNCHANGED <<currentQr, currentQrDataUrl, qrUpdatedAt, reconnectAttempts,
                 lastDisconnectReason, me>>
  /\ stopped' = TRUE
  /\ UNCHANGED <<logVars, qrPending, started, initialized, sendVars>>
  /\ UNCHANGED <<whVars, boVars>>
  /\ UNCHANGED ioVars

\* POST /auth/reset: stop(), then start({ forceNewLogin: true }) up to the
\* first await of connect on I/O. The server listens once the start() of the
\* boot has returned.
AuthReset ==
  /\ initialized
  /\ stoppedTimers' = stoppedTimers \cup timers
  /\ ConnectBegin(TRUE, NULL, WsClosed(sess), ClearTimer(timers, reconnectTimer))
  /\ socket' = StoppedHandle
  /\ connected' = FALSE
  /\ UNCHANGED <<currentQr, currentQrDataUrl, qrUpdatedAt, reconnectAttempts,
                 lastDisconnectReason, me>>
  /\ stopped' = FALSE
  /\ UNCHANGED <<logVars, qrPending, started, initialized, sendVars>>
  /\ UNCHANGED <<whVars, boVars>>
  /\ UNCHANGED <<clock, found>>

\* ------------------------------------------------------- journal queries
\* The rows of readEventsBetween, from the first: a row that JSON.parse
\* rejects, or whose value has no timestamp property to read (null), throws
\* into the empty catch; a row whose timestamp is not a date is skipped.
\* Mutant of InRange: the lower bound is exclusive.
InRangeExclusive(ts, startDate, endDate) ==
  ts.ms > startDate.ms /\ ts.ms <= endDate.ms

\* ts >= startDate && ts <= endDate
InRange(ts, startDate, endDate) ==
  ts.ms >= startDate.ms /\ ts.ms <= endDate.ms

\* Mutant of AfterCorruptRow: the loop ends at the first corrupt row.
AfterCorruptRowStop(rest) == <<>>

\* catch (error) { } inside the loop: the rows after a corrupt one are read.
AfterCorruptRow(rest) == rest

RECURSIVE ScanRows(_, _, _)
ScanRows(rows, startDate, endDate) ==
  IF rows = <<>> THEN <<>>
  ELSE LET row == Head(rows)
           rest == ScanRows(Tail(rows), startDate, endDate)
       IN  IF ~row.json \/ row.null THEN AfterCorruptRow(rest)
           ELSE LET ts == NewDate(row.value.timestamp)
                IN  IF ts.nan THEN rest
                    ELSE IF InRange(ts, startDate, endDate)
                         THEN <<row.value>> \o rest
                         ELSE rest

\* readEventsBetween(dataDir, startDate, endDate)
readEventsBetween(file, startDate, endDate) ==
  IF ~file.exists THEN <<>> ELSE ScanRows(file.rows, startDate, endDate)

\* parseDateInput(value, key): { value: null }, { error } or { value: date }
parseDateInput(value) ==
  IF value.t = "undefined" \/ (value.t = "string" /\ value.v = <<>>)
  THEN [error |-> FALSE, null |-> TRUE, value |-> InvalidDate]
  ELSE LET date == NewDate(value)
       IN  IF date.nan
           THEN [error |-> TRUE, null |-> FALSE, value |-> InvalidDate]
           ELSE [error |-> FALSE, null |-> FALSE, value |-> date]

\* GET /events?start_date=..&end_date=..
GetEvents(start_date, end_date) ==
  LET startDate == parseDateInput(start_date)
      endDate == parseDateInput(end_date)
      query == <<start_date, end_date>>
  IN  /\ found' =
           IF startDate.error \/ endDate.error
           THEN [query |-> query, status |-> "400", read |-> FALSE, events |-> <<>>]
           ELSE IF startDate.null \/ endDate.null
           THEN [query |-> query, status |-> "400", read |-> FALSE, events |-> <<>>]
           ELSE IF startDate.value.ms > endDate.value.ms
           THEN [query |-> query, status |-> "400", read |-> FALSE, events |-> <<>>]
           ELSE [query |-> query, status |-> "200", read |-> TRUE,
                 events |-> readEventsBetween(journal, startDate.value, endDate.value)]
      /\ UNCHANGED <<clock, authDir>>
      /\ UNCHANGED <<lcVars, logVars, envVars, sendVars, whVars, boVars>>

\* The clock is read as t from now on (it can also be set back).
SetClock(t) ==
  /\ clock' = t
  /\ UNCHANGED <<authDir, found>>
  /\ UNCHANGED <<lcVars, logVars, envVars, sendVars, whVars, boVars>>

\* Something other than appendEvent leaves a line in events.log that is not
\* an event (a torn or foreign write).
WriteLine(row) ==
  /\ journal' = [exists |-> TRUE, rows |-> Append(journal.rows, row)]
  /\ UNCHANGED <<eventBuffer, lcVars, envVars, sendVars, ioVars, whVars, boVars>>

\* ------------------------------------------------------- JavaScript values
\* The values a request body can hold, as far as the validation tells them
\* apart: undefined, a string (its characters), a number and an array.
Undef == [t |-> "undefined"]
Str(chars) == [t |-> "string", v |-> chars]
Num(n) == [t |-> "number", v |-> n]
Arr(elems) == [t |-> "array", v |-> elems]

\* !x is false
Truthy(x) ==
  CASE x.t = "undefined" -> FALSE
    [] x.t = "string" -> Len(x.v) > 0
    [] x.t = "number" -> x.v # 0
    [] x.t = "array" -> TRUE

\* typeof x === 'string'
IsString(x) == x.t = "string"

\* String.prototype.trim
RECURSIVE TrimStart(_)
TrimStart(chars) ==
  IF chars # <<>> /\ Head(chars) = " " THEN TrimStart(Tail(chars)) ELSE chars

RECURSIVE TrimEnd(_)
TrimEnd(chars) ==
  IF chars # <<>> /\ chars[Len(chars)] = " "
  THEN TrimEnd(SubSeq(chars, 1, Len(chars) - 1))
  ELSE chars

Trim(chars) == TrimEnd(TrimStart(chars))

\* String(x), for the values above (numbers are single digits)
Digits == <<"0", "1", "2", "3", "4", "5", "6", "7", "8", "9">>
ToString(x) ==
  CASE x.t = "string" -> x.v
    [] x.t = "number" -> <<Digits[x.v + 1]>>
    [] x.t = "undefined" -> <<"u", "n", "d", "e", "f", "i", "n", "e", "d">>
    [] x.t = "array" -> <<>>

\* ---------------------------------------------------------- service: sends
\* normalizeTarget(target) does not throw
TargetAccepted(target) == Truthy(target) /\ IsString(target)

\* normalizeTarget(target), when it does not throw
normalizeTarget(target) == Trim(target.v)

\* !x || typeof x !== 'string' is false, for the other required strings
StringAccepted(x) == Truthy(x) /\ IsString(x)

\* Mutant of ensureConnected: only the session handle is looked at.
EnsureSocketOnly(sock, conn) == sock # NULL

\* ensureConnected() does not throw
ensureConnected(sock, conn) == ~(sock = NULL \/ ~conn)

\* Array.isArray(pollOptions) && pollOptions.length >= 2
PollOptionsAccepted(pollOptions) == pollOptions.t = "array" /\ Len(pollOptions.v) >= 2

\* .filter(Boolean) on strings
RECURSIVE NonEmpty(_)
NonEmpty(strs) ==
  IF strs = <<>> THEN <<>>
  ELSE IF Head(strs) # <<>> THEN <<Head(strs)>> \o NonEmpty(Tail(strs))
       ELSE NonEmpty(Tail(strs))

\* pollOptions.map((option) => String(option).trim()).filter(Boolean)
PollOptionsNormalized(pollOptions) ==
  NonEmpty([k \in 1 .. Len(pollOptions.v) |-> Trim(ToString(pollOptions.v[k]))])

\* The send call fails with the status given.
Rejected(op, status) ==
  /\ resp' = [op |-> op, status |-> status, tick |-> 1 - resp.tick]
  /\ sends' = sends
  /\ UNCHANGED <<lcVars, logVars, envVars, whVars, boVars>>
  /\ UNCHANGED ioVars

\* await socket.sendMessage(jid, content) is called and suspends.
Invoked(op, jid, content) ==
  /\ CanPush(1)
  /\ resp' = [op |-> op, status |-> "sending", tick |-> 1 - resp.tick]
  /\ sends' = Append(sends, [op |-> op, sid |-> socket, jid |-> jid, content |-> content])
  /\ UNCHANGED <<lcVars, logVars, envVars, whVars, boVars>>
  /\ UNCHANGED ioVars

\* sendText({ target, message })
sendText(target, message) ==
  IF ~TargetAccepted(target) THEN Rejected("send.text", "400")
  ELSE IF ~StringAccepted(message) THEN Rejected("send.text", "400")
  ELSE IF ~ensureConnected(socket, connected) THEN Rejected("send.text", "503")
  ELSE Invoked("send.text", normalizeTarget(target), <<message.v>>)

\* sendMedia({ target, base64, filename, mimetype })
sendMedia(target, base64, filename, mimetype) ==
  IF ~TargetAccepted(target) THEN Rejected("send.media", "400")
  ELSE IF ~StringAccepted(base64) THEN Rejected("send.media", "400")
  ELSE IF ~StringAccepted(filename) THEN Rejected("send.media", "400")
  ELSE IF ~StringAccepted(mimetype) THEN Rejected("send.media", "400")
  ELSE IF ~ensureConnected(socket, connected) THEN Rejected("send.media", "503")
  ELSE Invoked("send.media", normalizeTarget(target), <<filename.v, mimetype.v>>)

\* sendPoll({ target, pollText, pollOptions })
sendPoll(target, pollText, pollOptions) ==
  IF ~TargetAccepted(target) THEN Rejected("send.poll", "400")
  ELSE IF ~StringAccepted(pollText) THEN Rejected("send.poll", "400")
  ELSE IF ~PollOptionsAccepted(pollOptions) THEN Rejected("send.poll", "400")
  ELSE IF ~ensureConnected(socket, connected) THEN Rejected("send.poll", "503")
  ELSE IF Len(PollOptionsNormalized(pollOptions)) < 2 THEN Rejected("send.poll", "400")
  ELSE Invoked("send.poll", normalizeTarget(target),
               <<pollText.v, PollOptionsNormalized(pollOptions)>>)

\* socket.sendMessage resolves for the i-th call in progress: the send.*
\* event is pushed and the result returned.
SendDone(i, ok) ==
  /\ i \in 1 .. Len(sends)
  /\ sends' = RemoveAt(sends, i)
  /\ resp' = [op |-> sends[i].op, status |-> "200", tick |-> resp.tick]
  /\ SetLog(pushEvent(Log, sends[i].op, NULL, <<sends[i].jid, sends[i].content>>, ok))
  /\ UNCHANGED <<lcVars, envVars>>
  /\ UNCHANGED <<WEBHOOK_URL, delivered, boVars>>
  /\ UNCHANGED ioVars

\* socket.sendMessage rejects for the i-th call in progress: the error
\* reaches the caller (no statusCode: a 500 of the route layer).
SendFail(i) ==
  /\ i \in 1 .. Len(sends)
  /\ sends' = RemoveAt(sends, i)
  /\ resp' = [op |-> sends[i].op, status |-> "500", tick |-> resp.tick]
  /\ UNCHANGED <<lcVars, logVars, envVars, whVars, boVars>>
  /\ UNCHANGED ioVars

\* ------------------------------------------------------- specifications
DispatcherInit == InitWebhook /\ InitBackoffIdle /\ InitService
NextWebhook ==
  \/ Enqueue
  \/ \E w \in 1 .. Len(workers) : PostSucceed(w)
  \/ \E w \in 1 .. Len(workers) : PostFail(w)
  \/ Wake
SpecWebhook == DispatcherInit /\ [][NextWebhook]_vars
LiveWebhook == SpecWebhook /\ WF_vars(PostDone) /\ WF_vars(Wake)

NextBackoff == RetryDelay
BackoffInit == InitWebhook /\ WEBHOOK_URL = "" /\ InitBackoff /\ InitService
SpecBackoff == BackoffInit /\ [][NextBackoff]_vars

\* The environments below have a webhook destination configured that has not
\* answered yet and a journal file that can be appended to.
ServiceInit ==
  InitWebhook /\ WEBHOOK_URL = "http://hook" /\ InitBackoffIdle /\ InitService
DiskOk == {TRUE}

\* The lifecycle manager under its callers (boot, POST /auth/reset, stop),
\* the open and close events of its sessions and its reconnect timers.
Next ==
  \/ \E force \in BOOLEAN : Start(force)
  \/ \E c \in 1 .. Len(sess) : ConnectLoaded(c)
  \/ \E c \in 1 .. Len(sess) : ConnectSocket(c)
  \/ \E s \in 1 .. Len(sess), ok \in DiskOk : SessionOpen(s, ok)
  \/ \E s \in 1 .. Len(sess), code \in CloseCodes, ok \in DiskOk : SessionClose(s, code, ok)
  \/ \E t \in timers : TimerFire(t)
  \/ Stop
  \/ AuthReset
Spec == ServiceInit /\ [][Next]_vars

\* The lifecycle manager of Spec with the credential updates of its sessions.
NextAuth ==
  \/ \E force \in BOOLEAN : Start(force)
  \/ \E c \in 1 .. Len(sess) : ConnectLoaded(c)
  \/ \E c \in 1 .. Len(sess) : ConnectSocket(c)
  \/ \E s \in 1 .. Len(sess) : CredsUpdate(s)
  \/ \E s \in 1 .. Len(sess), ok \in DiskOk : SessionOpen(s, ok)
  \/ \E s \in 1 .. Len(sess), code \in CloseCodes, ok \in DiskOk : SessionClose(s, code, ok)
  \/ \E t \in timers : TimerFire(t)
  \/ Stop
  \/ AuthReset
SpecAuth == ServiceInit /\ [][NextAuth]_vars

\* One session from boot to stop with every event of the protocol layer, with
\* no reset and before any reconnect timer fires.
NextLogin ==
  \/ \E force \in BOOLEAN : Start(force)
  \/ \E c \in 1 .. Len(sess) : ConnectLoaded(c)
  \/ \E c \in 1 .. Len(sess) : ConnectSocket(c)
  \/ \E s \in 1 .. Len(sess) : SessionQr(s)
  \/ \E i \in 1 .. Len(qrPending), rendered \in BOOLEAN, ok \in DiskOk : QrRendered(i, rendered, ok)
  \/ \E s \in 1 .. Len(sess), ok \in DiskOk : SessionOpen(s, ok)
  \/ \E s \in 1 .. Len(sess), code \in CloseCodes, ok \in DiskOk : SessionClose(s, code, ok)
  \/ \E s \in 1 .. Len(sess), kind \in MessageKinds, k \in 1 .. MaxBatch :
       \E oks \in [1 .. k -> DiskOk] : MessageEvent(s, kind, oks)
  \/ Stop
SpecLogin == ServiceInit /\ [][NextLogin]_vars

\* SpecLogin on a disk where appendFileSync can throw.
DiskOutcomes == BOOLEAN
NextDisk ==
  \/ \E force \in BOOLEAN : Start(force)
  \/ \E c \in 1 .. Len(sess) : ConnectLoaded(c)
  \/ \E c \in 1 .. Len(sess) : ConnectSocket(c)
  \/ \E s \in 1 .. Len(sess) : SessionQr(s)
  \/ \E i \in 1 .. Len(qrPending), rendered \in BOOLEAN, ok \in DiskOutcomes :
       QrRendered(i, rendered, ok)
  \/ \E s \in 1 .. Len(sess), ok \in DiskOutcomes : SessionOpen(s, ok)
  \/ \E s \in 1 .. Len(sess), code \in CloseCodes, ok \in DiskOutcomes :
       SessionClose(s, code, ok)
  \/ \E s \in 1 .. Len(sess), kind \in MessageKinds, k \in 1 .. MaxBatch :
       \E oks \in [1 .. k -> DiskOutcomes] : MessageEvent(s, kind, oks)
  \/ Stop
SpecDisk == ServiceInit /\ [][NextDisk]_vars

\* The lines of events.log that are not events: not JSON, the JSON value
\* null, an object without a timestamp, an object whose timestamp is no date.
NoValue == [timestamp |-> Undef]
MalformedRows ==
  {[json |-> FALSE, null |-> FALSE, value |-> NoValue],
   [json |-> TRUE, null |-> TRUE, value |-> NoValue],
   [json |-> TRUE, null |-> FALSE, value |-> NoValue],
   [json |-> TRUE, null |-> FALSE, value |-> [timestamp |-> Str(<<"x">>)]]}
ForeignRows == {k \in 1 .. Len(journal.rows) : journal.rows[k] \in MalformedRows}

\* The query parameters of GET /events.
Times == 0 .. MaxTime
DateParams == {Undef, Str(<<>>), Str(<<"x">>)} \cup {toISOString(DateAt(t)) : t \in Times}

\* One session that opens and receives messages while the clock moves and
\* events.log gets foreign lines, up to one GET /events request, which ends
\* the run.
Served == found.status # "none"
NextJournal ==
  \/ ~Served /\ Start(FALSE)
  \/ \E c \in 1 .. Len(sess) : ~Served /\ ConnectLoaded(c)
  \/ \E c \in 1 .. Len(sess) : ~Served /\ ConnectSocket(c)
  \/ \E s \in 1 .. Len(sess), ok \in DiskOk : ~Served /\ SessionOpen(s, ok)
  \/ \E s \in 1 .. Len(sess), ok \in DiskOk : ~Served /\ MessageEvent(s, "messages.upsert", <<ok>>)
  \/ \E t \in Times : ~Served /\ SetClock(t)
  \/ \E row \in MalformedRows :
       ~Served /\ Cardinality(ForeignRows) < MaxForeign /\ WriteLine(row)
  \/ \E start_date \in DateParams, end_date \in DateParams :
       ~Served /\ GetEvents(start_date, end_date)
SpecJournal == ServiceInit /\ [][NextJournal]_vars

\* The request bodies of SpecSend.
Targets ==
  {Undef, Num(7), Str(<<>>), Str(<<" ">>), Str(<<"j">>), Str(<<" ", "j", " ">>)}
Texts == {Undef, Num(7), Str(<<>>), Str(<<"h">>)}
Jids == {Undef, Str(<<" ", "j", " ">>)}
Fields == {Undef, Str(<<"h">>)}
OptionValues == {Str(<<"A">>), Str(<<" ">>)}
OptionArrays(values) ==
  UNION {{Arr(a) : a \in [1 .. k -> values]} : k \in 0 .. MaxPollOptions}
MixedArrays ==
  {Arr(<<Str(<<"A">>), Str(<<" ">>), Str(<<"B">>)>>),
   Arr(<<Str(<<" ", "B", " ">>), Str(<<"A">>)>>),
   Arr(<<Str(<<>>), Str(<<"A">>)>>),
   Arr(<<Num(7), Str(<<>>)>>),
   Arr(<<Num(7), Str(<<"A">>)>>)}
PollArrays == OptionArrays(OptionValues) \cup MixedArrays
PollInputs == {Undef, Str(<<"A", "B">>)} \cup PollArrays

SendEvents == {"send.text", "send.media", "send.poll"}
SendsLetThrough ==
  Len(sends) + Cardinality({k \in 1 .. Len(eventBuffer) : eventBuffer[k].eventType \in SendEvents})

\* One session from boot to stop with the send operations of the facade,
\* with no reset and before any reconnect timer fires.
NextSend ==
  \/ \E force \in BOOLEAN : Start(force)
  \/ \E c \in 1 .. Len(sess) : ConnectLoaded(c)
  \/ \E c \in 1 .. Len(sess) : ConnectSocket(c)
  \/ \E s \in 1 .. Len(sess), ok \in DiskOk : SessionOpen(s, ok)
  \/ \E s \in 1 .. Len(sess), code \in CloseCodes, ok \in DiskOk : SessionClose(s, code, ok)
  \/ Stop
  \/ \E target \in Targets, message \in Texts :
       SendsLetThrough < MaxSends /\ sendText(target, message)
  \/ \E target \in Jids, base64 \in Fields, filename \in Fields, mimetype \in Fields :
       SendsLetThrough < MaxSends /\ sendMedia(target, base64, filename, mimetype)
  \/ \E target \in Jids, pollText \in Fields, pollOptions \in PollInputs :
       SendsLetThrough < MaxSends /\ sendPoll(target, pollText, pollOptions)
  \/ \E i \in 1 .. Len(sends), ok \in DiskOk : SendDone(i, ok)
  \/ \E i \in 1 .. Len(sends) : SendFail(i)
SpecSend == ServiceInit /\ [][NextSend]_vars

\* ------------------------------------------------------------- properties
InQueue(p) == \E k \in 1 .. Len(queue) : queue[k] = p
WasDelivered(p) == \E k \in 1 .. Len(delivered) : delivered[k] = p
Attempted(p) == p <= Len(items) /\ items[p].calls >= 1
Posting == {w \in 1 .. Len(workers) : workers[w].pc = "post"}

\* C1: the destination acknowledges events in the order they were enqueued
\* (payloads are numbered in enqueue order, so delivered is strictly
\* increasing), and an item whose delivery is in progress is never behind an
\* earlier-enqueued item that is still queued.
C1_DeliveryOrder ==
  /\ \A i, j \in 1 .. Len(delivered) : i < j => delivered[i] < delivered[j]
  /\ \A w \in Posting : \A k \in 1 .. Len(queue) : workers[w].item <= queue[k]
  /\ \A k, l \in 1 .. Len(queue) : k < l => queue[k] < queue[l]

\* C1 witness: two events were delivered around one that was dropped after
\* failures and backoff sleeps.
C1_Witness ==
  /\ Len(delivered) >= 2
  /\ \E p \in 1 .. Len(items) :
       /\ items[p].out = "dropped"
       /\ delivered[1] < p
       /\ p < delivered[Len(delivered)]

\* C2: at most one instance of the drain loop exists and at most one delivery
\* is in progress, the running flag says whether one exists, and an enqueue
\* made while the worker runs only appends to the tail of the queue.
C2_SingleFlightState ==
  /\ Len(workers) <= 1
  /\ Cardinality(Posting) <= 1
  /\ running <=> (Len(workers) = 1)

C2_EnqueueWhileRunning ==
  (running /\ enqCount' = enqCount + 1 /\ WEBHOOK_URL # "")
    => /\ Len(workers') = Len(workers)
       /\ \A w \in 1 .. Len(workers) : workers'[w] = workers[w]
       /\ queue' = Append(queue, enqCount')
       /\ running'

C2_SingleFlight == [](C2_SingleFlightState) /\ [][C2_EnqueueWhileRunning]_vars

\* C2 witness: two enqueues arrived while the worker was suspended (one in
\* its backoff sleep) and there is still one worker.
C2_Witness ==
  /\ Len(workers) = 1
  /\ workers[1].pc = "sleep"
  /\ Len(queue) = 3

\* C3: an item leaves the queue only on a successful call (after k <=
\* ceiling failures, k+1 calls in all) or on its (ceiling+1)-th failure
\* (ceiling+1 calls in all), and nothing is done with it afterwards.
C3_ItemAccounting(p) ==
  LET it == items[p] IN
  /\ it.out = "none" => (~InQueue(p) /\ it.calls = 0 /\ it.attempt = 0)
  /\ it.out = "queued" =>
       /\ InQueue(p)
       /\ ~WasDelivered(p)
       /\ it.attempt <= WEBHOOK_MAX_RETRIES
       /\ it.calls = it.attempt + (IF \E w \in Posting : workers[w].item = p THEN 1 ELSE 0)
  /\ it.out = "delivered" =>
       /\ ~InQueue(p)
       /\ WasDelivered(p)
       /\ it.attempt <= WEBHOOK_MAX_RETRIES
       /\ it.calls = it.attempt + 1
  /\ it.out = "dropped" =>
       /\ ~InQueue(p)
       /\ ~WasDelivered(p)
       /\ it.attempt = WEBHOOK_MAX_RETRIES + 1
       /\ it.calls = WEBHOOK_MAX_RETRIES + 1
  /\ it.out \in {"delivered", "dropped"} =>
       \A w \in 1 .. Len(workers) : workers[w].item # p

C3_RemovedIsFinal ==
  \A p \in 1 .. Len(items) :
    items[p].out \in {"delivered", "dropped"} => items'[p] = items[p]

C3_AttemptAccounting ==
  /\ [](\A p \in 1 .. Len(items) : C3_ItemAccounting(p))
  /\ [][C3_RemovedIsFinal]_vars

\* C3 witness: one item was dropped at the ceiling, one was delivered on the
\* call after exactly ceiling failures, one on its first call.
C3_Witness ==
  \E p, q, r \in 1 .. Len(items) :
    /\ items[p].out = "dropped"
    /\ items[q].out = "delivered" /\ items[q].attempt = WEBHOOK_MAX_RETRIES
    /\ items[r].out = "delivered" /\ items[r].calls = 1
    /\ queue = <<>>

\* C4: with every delivery call and every backoff sleep ending, every queued
\* item leaves the queue and is attempted before that, the worker is stopped
\* exactly when the queue is empty, and so a non-empty queue always has a
\* worker.
C4_NoJam ==
  /\ (queue # <<>>) => (running /\ Len(workers) >= 1)
  /\ (queue = <<>>) => (~running /\ workers = <<>>)

C4_SelfHealing ==
  /\ [](C4_NoJam)
  /\ \A p \in 1 .. MaxEnqueue : InQueue(p) ~> (~InQueue(p) /\ Attempted(p))
  /\ []<>(queue = <<>> /\ ~running)

\* C4 witness: the worker stopped after dropping an item, and an item
\* enqueued after that was delivered and the worker stopped again.
C4_Witness ==
  /\ Len(items) >= 2
  /\ items[1].out = "dropped"
  /\ items[2].out = "delivered"
  /\ items[2].calls = 1
  /\ queue = <<>>
  /\ ~running

\* C5: the delay of attempt n is min(cap, base * 2^(n-1) + jitter), it is at
\* most the cap, and the delay of attempt n+1 is at least that of attempt n.
C5_BackoffShape ==
  [][boAttempt' = boAttempt + 1 =>
       /\ boDelay' = Min(boCap, boBase * (2 ^ (boAttempt' - 1)) + boJitter')
       /\ boDelay' <= boCap
       /\ (boAttempt >= 1 => boDelay' >= boDelay)]_vars

\* C5, the parts that hold for every base: the formula and the cap.
C5_FormulaAndCap ==
  boAttempt >= 1 =>
    /\ boDelay = Min(boCap, boBase * (2 ^ (boAttempt - 1)) + boJitter)
    /\ boDelay <= boCap

\* C5, the monotonicity once the base is at least the largest jitter.
C5_MonotoneFromBase199 ==
  [][(boAttempt' = boAttempt + 1 /\ boAttempt >= 1 /\ boBase >= 199)
       => boDelay' >= boDelay]_vars

Live == {s \in 1 .. Len(sess) : sess[s].st \in {"new", "open"}}
LastEvent == eventBuffer[Len(eventBuffer)]

\* C6: the step that handles a session-close leaves connected false and
\* emits one connection.close event whose shouldReconnect flag is false
\* exactly for the logged-out reason (a missing code is reconnectable); for
\* logged-out nothing is scheduled and the counter is unchanged, for any
\* other reason exactly one new timer is pending, it is the one the service
\* remembers, and reconnectAttempts grew by exactly 1; a connect started by
\* a timer never forces a new login.
C6_CloseHandled(s) ==
  LET code == sess'[s].code
      ev == eventBuffer'[Len(eventBuffer')]
  IN  /\ connected' = FALSE
      /\ Len(eventBuffer') = Len(eventBuffer) + 1
      /\ ev.eventType = "connection.close"
      /\ ev.payload = <<code, code # "401">>
      /\ Len(sess') = Len(sess)
      /\ IF code = "401"
         THEN /\ timers' = timers
              /\ reconnectTimer' = reconnectTimer
              /\ reconnectAttempts' = reconnectAttempts
         ELSE /\ Cardinality(timers' \ timers) = 1
              /\ timers \subseteq timers'
              /\ reconnectTimer' \in timers' \ timers
              /\ reconnectAttempts' = reconnectAttempts + 1

C6_CloseStep ==
  \A s \in 1 .. Len(sess) :
    (sess[s].st # "closed" /\ sess'[s].st = "closed") => C6_CloseHandled(s)

C6_ReconnectDecision ==
  /\ [](\A c \in 1 .. Len(sess) : sess[c].by # NULL => ~sess[c].force)
  /\ [][C6_CloseStep]_vars

\* C6 witness: a session closed with a reconnectable reason and its
\* reconnect is pending, then another closed as logged out, which is the
\* last event emitted.
C6_Witness ==
  /\ \E s \in 1 .. Len(sess) :
       sess[s].st = "closed" /\ sess[s].code = "428" /\ s \in timers
  /\ \E s \in 1 .. Len(sess) :
       /\ sess[s].st = "closed" /\ sess[s].code = "401"
       /\ eventBuffer # <<>>
       /\ LastEvent.src = s
       /\ LastEvent.payload = <<"401", FALSE>>
  /\ ~connected
  /\ reconnectAttempts = 1

\* C7: a reconnect that was pending when stop() ran (alone or as the first
\* half of a manual reset) never calls connect afterwards.
C7_StoppedNeverFires ==
  \A c \in 1 .. Len(sess) : sess[c].by # NULL => sess[c].by \notin stoppedTimers

\* C7 for the remembered reconnect (holds): whenever the service forgets
\* the timer it remembers (stop, reset, connect), that timer is no longer
\* pending; any other pending timer is left alone.
C7_RememberedIsCancelled ==
  [][(reconnectTimer # NULL /\ reconnectTimer' = NULL) => reconnectTimer \notin timers']_vars

\* C8: at most one protocol session is created and not yet asked to close
\* or closed.
C8_SingleSession == Cardinality(Live) <= 1

\* C8 for the boot alone (holds): until the first session closes and before
\* any reset, there is one session at most.
C8_SingleUntilFirstClose ==
  (Len(sess) <= 1) => Cardinality(Live) <= 1

\* The inputs that pass every validation of the three send operations.
ValidTargets == {t \in Targets : IsString(t) /\ Trim(t.v) # <<>>}
ValidJids == {t \in Jids : IsString(t) /\ Trim(t.v) # <<>>}
ValidTexts == {t \in Texts : IsString(t) /\ t.v # <<>>}
ValidFields == {t \in Fields : IsString(t) /\ t.v # <<>>}

\* The effective options of an array: each entry as a string, trimmed, the
\* empty results removed, in the original order.
EffectiveOptions(pollOptions) ==
  SelectSeq([k \in 1 .. Len(pollOptions.v) |-> Trim(ToString(pollOptions.v[k]))],
            LAMBDA o : Len(o) > 0)
ValidPolls == {a \in PollArrays : Len(EffectiveOptions(a)) >= 2}

NotConnected == socket = NULL \/ ~connected

\* What a send call that failed as not connected leaves behind.
C9_Refused(op) ==
  /\ resp'.op = op
  /\ resp'.status = "503"
  /\ sends' = sends
  /\ eventBuffer' = eventBuffer
  /\ journal' = journal
  /\ queue' = queue
  /\ items' = items
  /\ workers' = workers
  /\ enqCount' = enqCount

\* Every call with valid input that this step can be was refused: either the
\* step is a refusal of the operation, or no call of the operation with
\* valid input makes this step.
C9_SendCall ==
  /\ \/ C9_Refused("send.text")
     \/ \A target \in ValidTargets, message \in ValidTexts : ~sendText(target, message)
  /\ \/ C9_Refused("send.media")
     \/ \A target \in ValidJids, base64 \in ValidFields,
           filename \in ValidFields, mimetype \in ValidFields :
          ~sendMedia(target, base64, filename, mimetype)
  /\ \/ C9_Refused("send.poll")
     \/ \A target \in ValidJids, pollText \in ValidFields, pollOptions \in ValidPolls :
          ~sendPoll(target, pollText, pollOptions)

\* C9: a send call with valid input made while connected is false or no
\* session handle exists fails with 503, starts no call of the send
\* capability, and leaves the event buffer, the journal and the webhook
\* queue as they were.
C9_SendsRequireConnection == [][(NotConnected /\ resp' # resp) => C9_SendCall]_vars

\* C9 witness: a send was refused with 503 while the service still held the
\* handle of a session that had closed, and nothing was sent.
C9_Witness ==
  /\ resp.status = "503"
  /\ socket # NULL
  /\ ~connected
  /\ sess[socket].st = "closed"
  /\ sends = <<>>
  /\ SendsLetThrough = 0

\* C10: for every array of options (with a valid target and poll text),
\* sendPoll fails with 400 whenever fewer than 2 effective options remain,
\* and otherwise passes validation, the options sent being the effective
\* ones.
C10_PollCall ==
  \A target \in ValidJids, pollText \in ValidFields,
     pollOptions \in PollArrays :
    sendPoll(target, pollText, pollOptions) =>
      IF Len(EffectiveOptions(pollOptions)) < 2
      THEN resp'.status = "400"
      ELSE /\ resp'.status # "400"
           /\ resp'.status = "sending" =>
                sends'[Len(sends')].content = <<pollText.v, EffectiveOptions(pollOptions)>>

C10_PollNormalization == [][resp'.op = "send.poll" => C10_PollCall]_vars

\* C10 while connected (holds): the same statement for the calls made with
\* an open session.
C10_PollNormalizationConnected ==
  [][(~NotConnected /\ resp'.op = "send.poll") => C10_PollCall]_vars

\* C10, the normalisation alone (holds): the options computed are the
\* effective options, and what is sent and journaled is what was computed.
C10_NormalizedAreEffective ==
  /\ \A a \in PollArrays : PollOptionsNormalized(a) = EffectiveOptions(a)
  /\ \A i \in 1 .. Len(sends) :
       sends[i].op = "send.poll" => Len(sends[i].content[2]) >= 2
  /\ \A k \in 1 .. Len(eventBuffer) :
       eventBuffer[k].eventType = "send.poll" =>
         /\ Len(eventBuffer[k].payload[2][2]) >= 2
         /\ \E j \in 1 .. Len(journal.rows) : journal.rows[j].value = eventBuffer[k]

\* The events appended to the journal whose instant lies in [lo, hi], in
\* append order (every event pushed was appended: the disk does not fail, and
\* the request is the last step of a run).
AppendedBetween(lo, hi) ==
  SelectSeq(eventBuffer, LAMBDA e : lo <= e.timestamp.ms /\ e.timestamp.ms <= hi)

IsInstant(param) == param.t = "date-string"
IsMissing(param) == param \in {Undef, Str(<<>>)}

\* C11: a query with start <= end answers exactly the appended events whose
\* timestamp lies in [start, end], both ends included, in append order and
\* once each; a query with a missing bound or with start > end is answered
\* 400 without reading the journal.
C11_RangeQuery ==
  Served =>
    LET start_date == found.query[1]
        end_date == found.query[2]
    IN  /\ (IsInstant(start_date) /\ IsInstant(end_date) /\ start_date.ms <= end_date.ms)
             => /\ found.status = "200"
                /\ found.events = AppendedBetween(start_date.ms, end_date.ms)
        /\ (IsInstant(start_date) /\ IsInstant(end_date) /\ start_date.ms > end_date.ms)
             => found.status = "400" /\ ~found.read
        /\ (IsMissing(start_date) \/ IsMissing(end_date))
             => found.status = "400" /\ ~found.read

\* C11 witness: two events were appended at different instants around a
\* third, and the query for the first instant alone answered the two events
\* of that instant, leaving out the one between them in the journal.
C11_Witness ==
  /\ Len(eventBuffer) = 3
  /\ eventBuffer[1].timestamp.ms = 0
  /\ eventBuffer[2].timestamp.ms = 1
  /\ eventBuffer[3].timestamp.ms = 0
  /\ found.status = "200"
  /\ found.events = <<eventBuffer[1], eventBuffer[3]>>

\* C12: whatever malformed lines the journal holds and wherever they are, a
\* query whose range covers every appended event answers all of them in
\* their original order, the malformed lines alone being skipped; with no
\* journal file the answer is empty, not an error.
C12_ReadTolerance ==
  (Served /\ IsInstant(found.query[1]) /\ IsInstant(found.query[2])
     /\ found.query[1].ms <= found.query[2].ms) =>
    /\ found.status = "200"
    /\ (\A k \in 1 .. Len(eventBuffer) :
          /\ found.query[1].ms <= eventBuffer[k].timestamp.ms
          /\ eventBuffer[k].timestamp.ms <= found.query[2].ms)
         => found.events = eventBuffer
    /\ ~journal.exists => found.events = <<>>

\* C12 witness: the journal holds a malformed line between two events and
\* the query answered both events.
C12_Witness ==
  /\ Len(journal.rows) = 3
  /\ journal.rows[2] \in MalformedRows
  /\ Len(eventBuffer) = 2
  /\ found.status = "200"
  /\ found.events = eventBuffer

\* C12 witness for the missing file: a query was answered with no events
\* while events.log did not exist.
C12_WitnessNoFile ==
  ~journal.exists /\ found.status = "200" /\ found.events = <<>>

Journaled(e) == \E j \in 1 .. Len(journal.rows) : journal.rows[j].value = e

\* Every event this step pushed is enqueued for delivery, appended or not.
C13_Pushed ==
  \A k \in Len(eventBuffer) + 1 .. Len(eventBuffer') :
    LET e == eventBuffer'[k] IN
    /\ e.n <= Len(items')
    /\ items'[e.n].out = "queued"
    /\ \E q \in 1 .. Len(queue') : queue'[q] = e.n

\* The step of the handler completes as it does when the append succeeds.
C13_Completed ==
  /\ C6_CloseStep
  /\ \A s \in 1 .. Len(sess) :
       (sess[s].st = "new" /\ sess'[s].st = "open") =>
         /\ connected'
         /\ reconnectAttempts' = 0
         /\ Len(eventBuffer') = Len(eventBuffer) + 1
         /\ eventBuffer'[Len(eventBuffer')].eventType = "connection.open"
  /\ Len(journal'.rows) <= Len(journal.rows) + Len(eventBuffer') - Len(eventBuffer)

\* C13: when the append of an event to events.log fails, the handler that
\* produced the event completes all the same (a close still schedules its
\* reconnect, an open still connects) and the event is still enqueued for
\* webhook delivery.
C13_WriteFailureSwallowed == [][C13_Pushed /\ C13_Completed]_vars

\* C13 witness: the last event, a reconnectable close, is not in the journal
\* but is queued for delivery, and its reconnect is pending.
C13_Witness ==
  /\ eventBuffer # <<>>
  /\ LastEvent.eventType = "connection.close"
  /\ LastEvent.payload[2]
  /\ ~Journaled(LastEvent)
  /\ InQueue(LastEvent.n)
  /\ reconnectTimer # NULL
  /\ reconnectTimer \in timers
  /\ reconnectAttempts = 1

\* A stop() called in this state changes nothing: there is no remembered
\* reconnect to cancel, no session handle to close, and connected is false.
StopChangesNothing ==
  /\ reconnectTimer = NULL
  /\ ClearTimer(timers, reconnectTimer) = timers
  /\ socket = NULL
  /\ WsClosed(sess) = sess
  /\ connected = FALSE
  /\ stoppedTimers \cup timers = stoppedTimers

C15_QrClearedWhileConnected ==
  connected => (currentQr = NULL /\ currentQrDataUrl = NULL /\ qrUpdatedAt = NONE)

\* C15 for the two fields written before the handler suspends (holds): with
\* one session, the login code and qrUpdatedAt are null while connected.
C15_CodeClearedWhileConnected ==
  connected => (currentQr = NULL /\ qrUpdatedAt = NONE)

\* The targets that are missing, not a string, empty, or valid (a target of
\* whitespace alone is the subject of C20).
PlainTargets == {t \in Targets : ~(IsString(t) /\ t.v # <<>> /\ Trim(t.v) = <<>>)}

\* Valid input is never answered 400 and invalid input is always answered
\* 400 (so never 503), connected or not.
C16_Classified(valid) ==
  IF valid THEN resp'.status # "400" ELSE resp'.status = "400"

C16_TextCall ==
  \A target \in PlainTargets, message \in Texts :
    sendText(target, message) =>
      C16_Classified(target \in ValidTargets /\ message \in ValidTexts)

C16_MediaCall ==
  \A target \in Jids, base64 \in Fields, filename \in Fields, mimetype \in Fields :
    sendMedia(target, base64, filename, mimetype) =>
      C16_Classified(/\ target \in ValidJids
                     /\ base64 \in ValidFields
                     /\ filename \in ValidFields
                     /\ mimetype \in ValidFields)

C16_PollCall ==
  \A target \in Jids, pollText \in Fields, pollOptions \in PollInputs :
    sendPoll(target, pollText, pollOptions) =>
      C16_Classified(/\ target \in ValidJids
                     /\ pollText \in ValidFields
                     /\ pollOptions \in ValidPolls)

\* C16: for sendText, sendMedia and sendPoll, input that fails validation is
\* answered 400 whether the service is connected or not, and 503 is answered
\* only for input that passes all validation.
C16_ValidationFirst ==
  [][(resp' # resp) => (C16_TextCall /\ C16_MediaCall /\ C16_PollCall)]_vars

\* C16 for sendText and sendMedia (holds).
C16_ValidationFirstTextMedia ==
  [][(resp' # resp) => (C16_TextCall /\ C16_MediaCall)]_vars

\* The sessions with a login-code handler suspended before its pushEvent.
Rendering == {qrPending[i] : i \in 1 .. Len(qrPending)}

\* The journal and the webhook queue receive the events in one order (holds):
\* the numbers of the journal lines and of the queued items both increase.
C17_JournalAsEnqueued ==
  /\ \A i, j \in 1 .. Len(journal.rows) :
       i < j => journal.rows[i].value.n < journal.rows[j].value.n
  /\ \A i, j \in 1 .. Len(queue) : i < j => queue[i] < queue[j]
  /\ \A i \in 1 .. Len(eventBuffer) : Journaled(eventBuffer[i])

\* No event of a session is pushed while the handler of an event that the
\* session delivered before it is still to push its own.
C17_PushedInDeliveryOrder ==
  \A k \in Len(eventBuffer) + 1 .. Len(eventBuffer') :
    eventBuffer'[k].eventType # "auth.qr.updated" => eventBuffer'[k].src \notin Rendering

\* C17: the events of one session are appended to the journal, and enqueued
\* for delivery, in the order the protocol layer delivered them, also when a
\* handler suspends.
C17_OrderPreserved == [](C17_JournalAsEnqueued) /\ [][C17_PushedInDeliveryOrder]_vars

\* The reconnectable closes handled since the last session-open, read off
\* the events emitted.
Opens == {k \in 1 .. Len(eventBuffer) : eventBuffer[k].eventType = "connection.open"}
LastOpen == IF Opens = {} THEN 0 ELSE CHOOSE k \in Opens : \A j \in Opens : j <= k
ClosesSinceOpen ==
  Cardinality({k \in LastOpen + 1 .. Len(eventBuffer) :
                 /\ eventBuffer[k].eventType = "connection.close"
                 /\ eventBuffer[k].payload[2]})

C18_OpenStep == \E s \in 1 .. Len(sess) : sess[s].st = "new" /\ sess'[s].st = "open"
C18_CloseStep(reconnectable) ==
  \E s \in 1 .. Len(sess) :
    /\ sess[s].st # "closed" /\ sess'[s].st = "closed"
    /\ (sess'[s].code # "401") = reconnectable

C18_Step ==
  /\ C18_OpenStep => reconnectAttempts' = 0
  /\ C18_CloseStep(TRUE) => reconnectAttempts' = reconnectAttempts + 1
  /\ ~(C18_OpenStep \/ C18_CloseStep(TRUE)) => reconnectAttempts' = reconnectAttempts

\* C18: reconnectAttempts is 0 at first and after every session-open, grows
\* by 1 with every reconnectable close and changes in no other step (start,
\* stop, reset, timers, logged-out closes, login codes, messages, sends); it
\* always is the number of reconnectable closes since the last session-open.
C18_AttemptsBookkeeping ==
  /\ [](reconnectAttempts = ClosesSinceOpen)
  /\ [][C18_Step]_vars

\* C18 witness: a reconnectable close, then the reconnect opened a session
\* (the counter is back to 0), then a second reconnectable close: the
\* counter is 1.
C18_Witness ==
  /\ Len(eventBuffer) = 3
  /\ eventBuffer[1].eventType = "connection.close"
  /\ eventBuffer[1].payload[2]
  /\ eventBuffer[2].eventType = "connection.open"
  /\ eventBuffer[3].eventType = "connection.close"
  /\ eventBuffer[3].payload[2]
  /\ reconnectAttempts = 1

\* C19: the credential store that a connect(forceNewLogin = true) loads for
\* its new session is empty, and a connect made by a reconnect timer leaves
\* the credential store as it is.
C19_ReconnectKeepsStore ==
  (Len(sess') = Len(sess) + 1 /\ sess'[Len(sess')].by # NULL) => authDir' = authDir

C19_ForcedLoginFromEmpty ==
  /\ [](\A c \in 1 .. Len(sess) :
          (sess[c].force /\ sess[c].st # "load") => sess[c].loaded = {})
  /\ [][C19_ReconnectKeepsStore]_vars

\* C19 for the wipe itself (holds): the credential store is empty when a
\* connect(forceNewLogin = true) suspends for the first time, and a reconnect
\* never wipes it.
C19_WipedAtConnect ==
  [][((Len(sess') = Len(sess) + 1 /\ sess'[Len(sess')].force) => authDir' = {})
       /\ C19_ReconnectKeepsStore]_vars

\* A target that is missing, not a string, or empty after trimming
BadTargets(targets) == {t \in targets : ~(IsString(t) /\ Trim(t.v) # <<>>)}

\* This step is no call of a send operation with one of the targets given.
C20_NoCallWith(textTargets, targets) ==
  /\ \A target \in textTargets, message \in Texts : ~sendText(target, message)
  /\ \A target \in targets, base64 \in Fields, filename \in Fields, mimetype \in Fields :
       ~sendMedia(target, base64, filename, mimetype)
  /\ \A target \in targets, pollText \in Fields, pollOptions \in PollArrays :
       ~sendPoll(target, pollText, pollOptions)

\* C20: a send operation called with a target that is missing, not a string,
\* or empty after trimming is answered 400, and socket.sendMessage is never
\* called with an empty target.
C20_TargetValidation ==
  /\ [](\A i \in 1 .. Len(sends) : sends[i].jid # <<>>)
  /\ [][resp' # resp =>
          (resp'.status = "400" \/ C20_NoCallWith(BadTargets(Targets), BadTargets(Jids)))]_vars

\* socket.sendMessage has been called with the empty target (reachable).
C20_EmptyTargetSent == \E i \in 1 .. Len(sends) : sends[i].jid = <<>>

\* C20 without the targets of white space only (holds): a target that is
\* missing, not a string or the empty string is answered 400, and the target
\* handed to socket.sendMessage is the trimmed form of the one given.
C20_PlainTargetValidation ==
  /\ [](\A i \in 1 .. Len(sends) : sends[i].jid = Trim(sends[i].jid))
  /\ [][resp' # resp =>
          (resp'.status = "400"
             \/ C20_NoCallWith(BadTargets(PlainTargets), BadTargets(Jids)))]_vars
  /\ [][Len(sends') > Len(sends) =>
          C20_NoCallWith({t \in ValidTargets : Trim(t.v) # sends'[Len(sends')].jid},
                         {t \in ValidJids : Trim(t.v) # sends'[Len(sends')].jid})]_vars

\* The sessions created (makeWASocket was called for them)
Created(ss) == {c \in 1 .. Len(ss) : ss[c].st # "load" /\ ss[c].st # "version"}

\* C21: while the service is stopped (from a stop() to the next start()),
\* connected is false, no session is created, and no reconnect is scheduled
\* or fires, whatever the sessions created earlier deliver.
C21_StoppedStep ==
  (stopped /\ stopped') =>
    /\ Created(sess') = Created(sess)
    /\ timers' \subseteq timers
    /\ Len(sess') = Len(sess)

C21_StoppedStaysStopped ==
  /\ [](stopped => ~connected)
  /\ [][C21_StoppedStep]_vars

\* A reconnect scheduled after the stop is pending on the stopped service,
\* no connect() call being in progress (reachable).
C21_ReconnectWhileStopped ==
  /\ stopped
  /\ timers \ stoppedTimers # {}
  /\ Created(sess) = 1 .. Len(sess)

\* C21 for stop() itself (holds): stop() leaves no session handle, connected
\* false and no remembered reconnect, and a session that closes as logged out
\* while the service is stopped schedules nothing.
C21_StopLeavesIdle ==
  /\ [][(stopped' /\ Stop) =>
          (socket' = NULL /\ ~connected' /\ reconnectTimer' = NULL
             /\ reconnectTimer \notin timers')]_vars
  /\ [][(stopped /\ stopped' /\ (\E s \in 1 .. Len(sess) :
                                   sess[s].st # "closed" /\ sess'[s].st = "closed"
                                     /\ sess'[s].code = LoggedOut))
          => (timers' = timers /\ ~connected')]_vars

\* C22: at most one reconnect timer is pending, a pending timer is the one
\* reconnectTimer holds, and a step that schedules a timer leaves no older
\* timer pending.
C22_ScheduleStep ==
  (timers' \ timers # {}) => Cardinality(timers') = 1

C22_SinglePendingReconnect ==
  /\ [](Cardinality(timers) <= 1)
  /\ [](timers # {} => reconnectTimer \in timers)
  /\ [][C22_ScheduleStep]_vars

\* Two reconnect timers are pending (reachable).
C22_TwoPending == Cardinality(timers) >= 2

\* C22 for the remembered timer (holds): the timer reconnectTimer holds is
\* pending, a step that schedules a timer adds exactly the timer it stores
\* in reconnectTimer, and a timer scheduled while none is pending is the only
\* one.
C22_RememberedIsPending ==
  /\ [](reconnectTimer # NULL => reconnectTimer \in timers)
  /\ [][(timers' \ timers # {}) => timers' = timers \cup {reconnectTimer'}]_vars
  /\ [][(timers = {} /\ timers' # {}) => timers' = {reconnectTimer'}]_vars

\* The session whose open set connected: the source of the last event of
\* the buffer that is a connection.open or a connection.close.
ConnEvents ==
  {i \in 1 .. Len(eventBuffer) :
     eventBuffer[i].eventType \in {"connection.open", "connection.close"}}
LastConn == eventBuffer[CHOOSE i \in ConnEvents : \A j \in ConnEvents : j <= i]

\* C23: while connected is true the session handle is not null, it is the
\* session whose open set connected, that session is open and the identity
\* captured is its own; every call of socket.sendMessage is made on a session
\* that is open at the time.
C23_HandleIsOpenSession ==
  connected =>
    /\ socket # NULL
    /\ sess[socket].st = "open"
    /\ ConnEvents # {}
    /\ LastConn.eventType = "connection.open"
    /\ LastConn.src = socket
    /\ me = socket

C23_SendStep ==
  Len(sends') > Len(sends) =>
    /\ sends'[Len(sends')].sid # NULL
    /\ sess[sends'[Len(sends')].sid].st = "open"

C23_SendsToOpenSession ==
  [] C23_HandleIsOpenSession /\ [][C23_SendStep]_vars

\* C23 without a replaced session (holds): when every session created other
\* than the one the handle refers to has closed or has been asked to close,
\* connected implies that the handle is the open session that set it.
C23_UnlessReplaced ==
  (\A c \in Created(sess) : c # socket => sess[c].st \in {"closing", "closed"})
    => C23_HandleIsOpenSession

====
